---- MODULE Spec2Model ----
(***************************************************************************)
(* Rust RCON heartbeat monitor.                                            *)
(*                                                                         *)
(* Two programs are modelled: src/index.js (classic RCON only) and         *)
(* src/unnamed/part_000 (classic RCON or WebRCON, chosen by                *)
(* RCON_TRANSPORT).  Both run the same loop: checkServerWithRetry() makes  *)
(* up to ATTEMPTS_PER_CYCLE attempts, posts a heartbeat after a successful *)
(* exchange and keeps the module-level counter consecutiveFailures.        *)
(*                                                                         *)
(* The process is single-threaded: one action is one run of the event      *)
(* loop, from the resumption of an await (or the firing of a callback) to  *)
(* the next await.                                                         *)
(***************************************************************************)
EXTENDS Integers, Sequences, FiniteSets, TLC

----------------------------------------------------------------------------
(* Bounds of the exploration *)

\* largest ATTEMPTS_PER_CYCLE explored (the default is 3)
MaxAttempts == 3
\* largest CONSECUTIVE_FAILURES_THRESHOLD explored (the default is 2)
MaxThreshold == 2
\* longest run of cycles that returned false in a row
MaxCycles == 3
\* most frames one WebRCON session receives
MaxFrames == 3

----------------------------------------------------------------------------
(* Values *)

Programs == {"index.js", "part_000"}

\* values of the environment variable RCON_TRANSPORT
TransportValues == {"Classic", "WEB", "udp"}

\* String.prototype.toLowerCase on the values above
ToLowerCase(s) ==
  CASE s = "Classic" -> "classic"
    [] s = "WEB" -> "web"
    [] OTHER -> s

\* a JavaScript value that is undefined or a number
Undefined == [def |-> FALSE, val |-> 0]
Num(n) == [def |-> TRUE, val |-> n]

\* values Date.now() returns (epoch time, scaled to fit the checker's integers):
\* the host's clock reads the present, a time long after the epoch
Clock == {1761825600}

\* the Identifier field of a received JSON object
Identifiers == {Undefined} \cup {Num(n) : n \in {-1, 1} \cup Clock}

\* the Message field of a received JSON object: falsy (missing, empty, null),
\* a non-empty string, or another truthy value (a number, an object)
Messages == {"falsy", "string", "other"}

\* frames a WebRCON server can send: text that is not JSON, the JSON text
\* "null", and a JSON object with or without an Identifier
Frames ==
  {[kind |-> "garbage", Identifier |-> Undefined, Message |-> "falsy"],
   [kind |-> "null", Identifier |-> Undefined, Message |-> "falsy"]}
  \cup {[kind |-> "object", Identifier |-> i, Message |-> m] :
          i \in Identifiers, m \in Messages}

\* values of JITTER_MS, in milliseconds: no jitter, and a positive one
\* (the default is 300)
JitterValues == {0, 2}

\* Math.random() * ms in whole milliseconds: Math.random() is in [0, 1)
JitterSamples(ms) == {j \in 0..ms : j < ms \/ j = 0}

VARIABLES
  program,                        \* which of the two programs runs
  RCON_TRANSPORT,                 \* process.env, read once at load
  ATTEMPTS_PER_CYCLE,
  CONSECUTIVE_FAILURES_THRESHOLD,
  JITTER_MS,
  pc,                             \* the await the loop is suspended at
  attempt,                        \* loop variable of checkServerWithRetry
  consecutiveFailures,            \* module-level counter
  returned,                       \* value the last call returned
  verdict,                        \* [WARN] / [DOWN] line of the last call
  conn,                           \* the rcon-client connection of the attempt
  sess,                           \* closure state of checkServerWebRCON
  trace,                          \* what the WebRCON session has observed
  abandoned,                      \* a socket of an earlier session can still fail
  heartbeats,                     \* axios.post calls made in this cycle
  okAt,                           \* first attempt of this cycle whose exchange succeeded
  falseRun,                       \* calls that returned false in a row
  jitter,                         \* delay of the sleep(jitter) in progress, -1: none
  rtrace,                         \* what the classic attempt has observed
  cfStart                         \* consecutiveFailures when the cycle started

cfg == <<program, RCON_TRANSPORT, ATTEMPTS_PER_CYCLE,
         CONSECUTIVE_FAILURES_THRESHOLD, JITTER_MS>>
cyc == <<pc, attempt, consecutiveFailures, returned, verdict, falseRun, jitter>>
rc == <<conn, rtrace>>
web == <<sess, trace, abandoned>>
obs == <<heartbeats, okAt, cfStart>>
vars == <<cfg, cyc, rc, web, obs>>

----------------------------------------------------------------------------
(* checkServerClassicRCON *)

\* connect: outcome of Rcon.connect (connect and authenticate);
\* sendCalls: calls of rcon.send; response: rcon.send returned a response
NoRcon == [connect |-> "pending", sendCalls |-> 0, response |-> FALSE]

----------------------------------------------------------------------------
(* checkServerWebRCON: the promise executor and its callbacks *)

NoSession ==
  [ws |-> FALSE, readyState |-> "NONE", listeners |-> FALSE,
   timeoutId |-> FALSE, authSuccess |-> FALSE, commandId |-> Undefined,
   settled |-> "none", error |-> "none", sent |-> <<>>, closeCalls |-> 0]

\* rx: frames received; sigRx: position of the first frame with Identifier -1;
\* okRx: position of the frame that resolved the promise (0: none);
\* closedPreSig: a 'close' event came before any frame with Identifier -1;
\* matchRx: position of the first frame received after the signal whose
\* Identifier is the command id; garbageRx: position of the first frame that
\* is not JSON; otherSettled: a frame received after the signal with another
\* Identifier settled the promise; echoed: a frame with Identifier 1 (the
\* auth message's) or -1 (the signal's) was received after the signal
NoTrace == [rx |-> 0, sigRx |-> 0, okRx |-> 0, closedPreSig |-> FALSE,
            matchRx |-> 0, garbageRx |-> 0, otherSettled |-> FALSE,
            echoed |-> FALSE]

\* a cleanup that leaves the listeners on the socket
cleanupKeepsListeners(s) ==
  [s EXCEPT !.timeoutId = FALSE,
            !.readyState = IF s.ws /\ @ = "OPEN" THEN "CLOSING" ELSE @,
            !.closeCalls = IF s.ws /\ s.readyState = "OPEN" THEN @ + 1 ELSE @]

\* a cleanup that calls ws.close() whatever the socket's readyState
cleanupClosesAlways(s) ==
  [s EXCEPT !.timeoutId = FALSE,
            !.listeners = IF s.ws THEN FALSE ELSE @,
            !.readyState = IF s.ws /\ @ \in {"CONNECTING", "OPEN"}
                           THEN "CLOSING" ELSE @,
            !.closeCalls = IF s.ws THEN @ + 1 ELSE @]

\* cleanup(): clear the timer, drop the listeners, close the socket if OPEN;
\* closeCalls counts the calls of ws.close()
cleanup(s) ==
  [s EXCEPT !.timeoutId = FALSE,
            !.listeners = IF s.ws THEN FALSE ELSE @,
            !.readyState = IF s.ws /\ @ = "OPEN" THEN "CLOSING" ELSE @,
            !.closeCalls = IF s.ws /\ s.readyState = "OPEN" THEN @ + 1 ELSE @]

\* a promise settles once: later resolve/reject calls are ignored
resolve(s) ==
  IF s.settled = "pending" THEN [s EXCEPT !.settled = "resolved"] ELSE s

reject(s, e) ==
  IF s.settled = "pending"
  THEN [s EXCEPT !.settled = "rejected", !.error = e]
  ELSE s

\* ws.send(JSON.stringify(m)): sent records the calls; on a socket that is
\* CLOSING the call does not throw and nothing reaches the server
send(s, m) == [s EXCEPT !.sent = Append(@, m)]

\* the executor: arm the timer, construct the socket, register the handlers;
\* a constructor that throws goes to the catch of lines 129-132
Executor(ctorThrows) ==
  LET armed == [NoSession EXCEPT !.timeoutId = TRUE, !.settled = "pending"]
  IN IF ctorThrows
     THEN reject(cleanup(armed), "constructor")
     ELSE [armed EXCEPT !.ws = TRUE, !.readyState = "CONNECTING",
                        !.listeners = TRUE]

timeoutCallback(s) == reject(cleanup(s), "WebRCON timeout")

wsOnError(s) == reject(cleanup(s), "socket error")

wsOnOpen(s) == send(s, [Identifier |-> Num(1), Type |-> "auth"])

\* JSON.parse(data.toString()) throws on text that is not JSON; reading
\* msg.Identifier throws when the parsed value is null.  Every throw inside
\* the handler's try is caught there: cleanup, reject with a parse error
ParseThrows(data) == data.kind \in {"garbage", "null"}

\* msg.Message.substring throws when Message is truthy and not a string
PreviewThrows(data) == data.Message = "other"

\* the signal test without its authSuccess guard: every frame with
\* Identifier -1 sends the command again
wsOnMessageResends(s, data, now) ==
  IF ParseThrows(data)
  THEN reject(cleanup(s), "WebRCON parse error")
  ELSE IF data.Identifier = Num(-1)
  THEN send([s EXCEPT !.authSuccess = TRUE, !.commandId = Num(now)],
            [Identifier |-> Num(now), Type |-> "command"])
  ELSE IF s.authSuccess /\ data.Identifier = s.commandId
  THEN IF PreviewThrows(data)
       THEN reject(cleanup(s), "WebRCON parse error")
       ELSE resolve(cleanup(s))
  ELSE s

\* a command that reuses the auth message's Identifier instead of Date.now()
wsOnMessageReusesAuthId(s, data, now) ==
  IF ParseThrows(data)
  THEN reject(cleanup(s), "WebRCON parse error")
  ELSE IF ~s.authSuccess /\ data.Identifier = Num(-1)
  THEN send([s EXCEPT !.authSuccess = TRUE, !.commandId = Num(1)],
            [Identifier |-> Num(1), Type |-> "command"])
  ELSE IF s.authSuccess /\ data.Identifier = s.commandId
  THEN IF PreviewThrows(data)
       THEN reject(cleanup(s), "WebRCON parse error")
       ELSE resolve(cleanup(s))
  ELSE s

\* the command-response test without its authSuccess guard
wsOnMessageNoAuthGuard(s, data, now) ==
  IF ParseThrows(data)
  THEN reject(cleanup(s), "WebRCON parse error")
  ELSE IF ~s.authSuccess /\ data.Identifier = Num(-1)
  THEN send([s EXCEPT !.authSuccess = TRUE, !.commandId = Num(now)],
            [Identifier |-> Num(now), Type |-> "command"])
  ELSE IF data.Identifier = s.commandId
  THEN IF PreviewThrows(data)
       THEN reject(cleanup(s), "WebRCON parse error")
       ELSE resolve(cleanup(s))
  ELSE s

\* a catch that only logs the error: the attempt goes on
wsOnMessageCatchLogs(s, data, now) ==
  IF ParseThrows(data)
  THEN s
  ELSE IF ~s.authSuccess /\ data.Identifier = Num(-1)
  THEN send([s EXCEPT !.authSuccess = TRUE, !.commandId = Num(now)],
            [Identifier |-> Num(now), Type |-> "command"])
  ELSE IF s.authSuccess /\ data.Identifier = s.commandId
  THEN IF PreviewThrows(data)
       THEN s
       ELSE resolve(cleanup(s))
  ELSE s

wsOnMessage(s, data, now) ==
  IF ParseThrows(data)
  THEN reject(cleanup(s), "WebRCON parse error")
  ELSE IF ~s.authSuccess /\ data.Identifier = Num(-1)
  THEN send([s EXCEPT !.authSuccess = TRUE, !.commandId = Num(now)],
            [Identifier |-> Num(now), Type |-> "command"])
  ELSE IF s.authSuccess /\ data.Identifier = s.commandId
  THEN IF PreviewThrows(data)
       THEN reject(cleanup(s), "WebRCON parse error")
       ELSE resolve(cleanup(s))
  ELSE s

\* a 'close' handler that does nothing
wsOnCloseIgnored(s) == s

wsOnClose(s) ==
  IF ~s.authSuccess
  THEN reject(cleanup(s), "WebRCON connection closed before auth")
  ELSE s

----------------------------------------------------------------------------
(* checkServerWithRetry *)

\* index.js has no transport setting: it always speaks classic RCON
Transport ==
  IF program = "index.js" THEN "classic" ELSE ToLowerCase(RCON_TRANSPORT)

Cyc(p, n, cf, r, v) ==
  [pc |-> p, attempt |-> n, consecutiveFailures |-> cf, returned |-> r,
   verdict |-> v]

\* the [DOWN] / [WARN] branch after the increment
Classify(cf) ==
  IF cf >= CONSECUTIVE_FAILURES_THRESHOLD THEN "DOWN" ELSE "WARN"

\* the code after the for loop: count the failed cycle, log, return false
AfterLoop(n, cf) == Cyc("sleep", n, cf + 1, "false", Classify(cf + 1))

\* the catch of the attempt: sleep a jitter if attempts remain, else the
\* loop ends (attempt++ makes the loop condition false)
Catch(n, cf) ==
  IF n < ATTEMPTS_PER_CYCLE
  THEN Cyc("jitter", n, cf, "none", "none")
  ELSE AfterLoop(n + 1, cf)

\* the exchange returned: reset the counter and call axios.post
Succeeded(n) == Cyc("post", n, 0, "none", "none")

\* axios.post resolved: log [HEARTBEAT] and return true
Returned(n, cf) == Cyc("sleep", n, cf, "true", "none")

Apply(r) ==
  /\ pc' = r.pc
  /\ attempt' = r.attempt
  /\ consecutiveFailures' = r.consecutiveFailures
  /\ returned' = r.returned
  /\ verdict' = r.verdict
  /\ falseRun' = CASE r.returned = "false" -> falseRun + 1
                   [] r.returned = "true" -> 0
                   [] OTHER -> falseRun
  /\ IF r.pc = "jitter"
     THEN jitter' \in JitterSamples(JITTER_MS)
     ELSE jitter' = -1

\* an exchange succeeded in this step: axios.post has been called
Posted ==
  /\ heartbeats' = heartbeats + 1
  /\ okAt' = IF okAt = 0 THEN attempt ELSE okAt
  /\ cfStart' = cfStart

\* a socket that cleanup() left without listeners and that is not closed:
\* the variable ws of the next session no longer refers to it
Unheard(s) == s.ws /\ ~s.listeners /\ s.readyState # "CLOSED"

\* an unheard socket that can still emit 'error': a socket emits 'error' at
\* most once, and the one that wsOnError heard has emitted it
MayFail(s) == Unheard(s) /\ s.error # "socket error"

\* the body of the for loop for attempt n, up to its first await
Enter(n) ==
  \/ /\ Transport = "classic"
     /\ Apply(Cyc("connect", n, consecutiveFailures, "none", "none"))
     /\ conn' = "none"
     /\ rtrace' = NoRcon
     /\ UNCHANGED web
  \/ /\ Transport = "web"
     /\ \E ctorThrows \in BOOLEAN : sess' = Executor(ctorThrows)
     /\ trace' = NoTrace
     /\ abandoned' = (abandoned \/ MayFail(sess))
     /\ Apply(Cyc("web", n, consecutiveFailures, "none", "none"))
     /\ conn' = "none"
     /\ rtrace' = NoRcon
  \/ /\ Transport \notin {"classic", "web"}
     /\ Apply(Catch(n, consecutiveFailures))
     /\ UNCHANGED <<rc, web>>

\* loop(): call checkServerWithRetry at startup and after each sleep
Loop ==
  /\ pc \in {"start", "sleep"}
  /\ falseRun < MaxCycles
  /\ Enter(1)
  /\ heartbeats' = 0
  /\ okAt' = 0
  /\ cfStart' = consecutiveFailures
  /\ UNCHANGED cfg

\* sleep(jitter) is over: attempt++ and the next attempt starts
JitterDone ==
  /\ pc = "jitter"
  /\ Enter(attempt + 1)
  /\ UNCHANGED <<cfg, obs>>

\* the rejection of Rcon.connect is swallowed and the command is sent anyway
RconConnectIgnoresRejection ==
  /\ pc = "connect"
  /\ \E ok \in BOOLEAN :
       /\ conn' = IF ok THEN "open" ELSE conn
       /\ rtrace' = [rtrace EXCEPT !.connect = IF ok THEN "ok" ELSE "failed",
                                   !.sendCalls = @ + 1]
       /\ Apply(Cyc("send", attempt, consecutiveFailures, "none", "none"))
  /\ UNCHANGED <<cfg, web, obs>>

\* Rcon.connect (connect and authenticate) settles; when it resolves
\* rcon.send(RCON_COMMAND) is called, when it rejects (connection refused,
\* authentication rejected) the error goes to the attempt's catch
RconConnect ==
  /\ pc = "connect"
  /\ \E ok \in BOOLEAN :
       IF ok
       THEN /\ conn' = "open"
            /\ rtrace' = [rtrace EXCEPT !.connect = "ok",
                                        !.sendCalls = @ + 1]
            /\ Apply(Cyc("send", attempt, consecutiveFailures, "none", "none"))
       ELSE /\ conn' = conn
            /\ rtrace' = [rtrace EXCEPT !.connect = "failed"]
            /\ Apply(Catch(attempt, consecutiveFailures))
  /\ UNCHANGED <<cfg, web, obs>>

\* a failed rcon.send is swallowed: the attempt goes on as if it had answered
RconSendSwallows ==
  /\ pc = "send"
  /\ \E ok \in BOOLEAN :
       /\ Apply(Cyc("end", attempt, consecutiveFailures, "none", "none"))
       /\ rtrace' = [rtrace EXCEPT !.response = ok]
  /\ UNCHANGED <<cfg, conn, web, obs>>

\* rcon.send(RCON_COMMAND) settles; on failure the inner catch awaits rcon.end()
RconSend ==
  /\ pc = "send"
  /\ \E ok \in BOOLEAN :
       /\ Apply(Cyc(IF ok THEN "end" ELSE "endInCatch", attempt,
                    consecutiveFailures, "none", "none"))
       /\ rtrace' = [rtrace EXCEPT !.response = ok]
  /\ UNCHANGED <<cfg, conn, web, obs>>

\* rcon.end() after the response settles
RconEnd ==
  /\ pc = "end"
  /\ conn' = "ended"
  /\ \E ok \in BOOLEAN :
       IF ok
       THEN Apply(Succeeded(attempt)) /\ Posted
       ELSE /\ Apply(Cyc("endInCatch", attempt, consecutiveFailures,
                         "none", "none"))
            /\ UNCHANGED obs
  /\ UNCHANGED <<cfg, rtrace, web>>

\* rcon.end() in the inner catch settles; the error goes to the attempt's catch
RconEndInCatch ==
  /\ pc = "endInCatch"
  /\ conn' = "ended"
  /\ Apply(Catch(attempt, consecutiveFailures))
  /\ UNCHANGED <<cfg, rtrace, web, obs>>

\* the promise of checkServerWebRCON has settled: the await resumes
WebSettled ==
  /\ pc = "web"
  /\ sess.settled \in {"resolved", "rejected"}
  /\ IF sess.settled = "resolved"
     THEN Apply(Succeeded(attempt)) /\ Posted
     ELSE Apply(Catch(attempt, consecutiveFailures)) /\ UNCHANGED obs
  /\ UNCHANGED <<cfg, rc, web>>

\* axios.post(UPTIME_ENDPOINT) settles; in index.js the post is inside the
\* inner try, so its failure passes through the inner catch first
AxiosPost ==
  /\ pc = "post"
  /\ \E ok \in BOOLEAN :
       IF ok
       THEN Apply(Returned(attempt, consecutiveFailures))
       ELSE IF program = "index.js"
            THEN Apply(Cyc("endInCatch", attempt, consecutiveFailures,
                           "none", "none"))
            ELSE Apply(Catch(attempt, consecutiveFailures))
  /\ UNCHANGED <<cfg, rc, web, obs>>

----------------------------------------------------------------------------
(* Events of the WebRCON socket and of the timer.  An event runs the        *)
(* handler registered for it.  The socket reports 'error' with readyState  *)
(* CLOSING and 'close' with readyState CLOSED; a close frame of the server *)
(* makes it CLOSING and emits nothing until the connection has ended.      *)
(* Once cleanup() has removed the listeners the socket lives on unheard:   *)
(* its 'open' and 'close' reach no code, and its 'error', having no        *)
(* listener, is thrown by the emitter and ends the process.                *)

\* the process has not exited
Running == pc # "exited"

WsOpen ==
  /\ Running
  /\ sess.listeners
  /\ sess.readyState = "CONNECTING"
  /\ sess' = wsOnOpen([sess EXCEPT !.readyState = "OPEN"])
  /\ UNCHANGED <<cfg, cyc, rc, trace, abandoned, obs>>

\* 'message': also emitted while the socket is CLOSING, for a frame that
\* was still being read when the server ended the connection
WsMessage ==
  /\ Running
  /\ sess.listeners
  /\ sess.readyState \in {"OPEN", "CLOSING"}
  /\ trace.rx < MaxFrames
  /\ \E data \in Frames, now \in Clock :
       LET s2 == wsOnMessage(sess, data, now)
           k == trace.rx + 1
       IN /\ sess' = s2
          /\ trace' = [trace EXCEPT
               !.rx = k,
               !.sigRx = IF @ = 0 /\ data.kind = "object"
                            /\ data.Identifier = Num(-1)
                         THEN k ELSE @,
               !.okRx = IF sess.settled = "pending" /\ s2.settled = "resolved"
                        THEN k ELSE @,
               !.matchRx = IF @ = 0 /\ data.kind = "object"
                              /\ sess.authSuccess
                              /\ data.Identifier = sess.commandId
                           THEN k ELSE @,
               !.garbageRx = IF @ = 0 /\ data.kind = "garbage" THEN k ELSE @,
               !.otherSettled = @ \/ (/\ data.kind = "object"
                                      /\ sess.authSuccess
                                      /\ data.Identifier # sess.commandId
                                      /\ s2.settled # sess.settled),
               !.echoed = @ \/ (/\ data.kind = "object"
                                /\ sess.authSuccess
                                /\ data.Identifier \in {Num(1), Num(-1)})]
  /\ UNCHANGED <<cfg, cyc, rc, abandoned, obs>>

\* the server's close frame or the end of its stream arrives: the socket
\* becomes CLOSING and no 'close' is emitted until the connection has ended
WsCloseFrame ==
  /\ Running
  /\ sess.listeners
  /\ sess.readyState = "OPEN"
  /\ sess' = [sess EXCEPT !.readyState = "CLOSING"]
  /\ UNCHANGED <<cfg, cyc, rc, trace, abandoned, obs>>

\* the connection has ended: 'close'
WsClose ==
  /\ Running
  /\ sess.listeners
  /\ sess.readyState \in {"CONNECTING", "OPEN", "CLOSING"}
  /\ sess' = wsOnClose([sess EXCEPT !.readyState = "CLOSED"])
  /\ trace' = [trace EXCEPT !.closedPreSig = @ \/ trace.sigRx = 0]
  /\ UNCHANGED <<cfg, cyc, rc, abandoned, obs>>

WsError ==
  /\ Running
  /\ sess.listeners
  /\ sess.readyState \in {"CONNECTING", "OPEN", "CLOSING"}
  /\ sess' = wsOnError([sess EXCEPT !.readyState = "CLOSING"])
  /\ UNCHANGED <<cfg, cyc, rc, trace, abandoned, obs>>

Timeout ==
  /\ Running
  /\ sess.timeoutId
  /\ sess' = timeoutCallback(sess)
  /\ UNCHANGED <<cfg, cyc, rc, trace, abandoned, obs>>

\* the session's socket goes on without listeners: the handshake completes,
\* the server's close frame arrives, or the connection ends; no code runs
WsUnheard ==
  /\ Running
  /\ Unheard(sess)
  /\ \E r \in {"OPEN", "CLOSING", "CLOSED"} :
       /\ \/ sess.readyState = "CONNECTING" /\ r \in {"OPEN", "CLOSED"}
          \/ sess.readyState = "OPEN" /\ r \in {"CLOSING", "CLOSED"}
          \/ sess.readyState = "CLOSING" /\ r = "CLOSED"
       /\ sess' = [sess EXCEPT !.readyState = r]
  /\ UNCHANGED <<cfg, cyc, rc, trace, abandoned, obs>>

\* the sockets of earlier sessions have all closed
AbandonedClosed ==
  /\ Running
  /\ abandoned
  /\ abandoned' = FALSE
  /\ UNCHANGED <<cfg, cyc, rc, sess, trace, obs>>

\* a socket without listeners emits 'error' (handshake timed out, invalid
\* frame, connection reset): the socket becomes CLOSING, emit('error') with
\* no listener throws, the exception is uncaught and the process exits with
\* code 1
WsErrorUnhandled ==
  /\ Running
  /\ \/ /\ MayFail(sess)
        /\ sess' = [sess EXCEPT !.readyState = "CLOSING"]
        /\ UNCHANGED <<trace, abandoned>>
     \/ /\ abandoned
        /\ UNCHANGED web
  /\ pc' = "exited"
  /\ jitter' = -1
  /\ UNCHANGED <<attempt, consecutiveFailures, returned, verdict, falseRun>>
  /\ UNCHANGED <<cfg, rc, obs>>

----------------------------------------------------------------------------

Init ==
  /\ program \in Programs
  /\ RCON_TRANSPORT \in IF program = "index.js" THEN {"web"} ELSE TransportValues
  /\ ATTEMPTS_PER_CYCLE \in 1..MaxAttempts
  /\ CONSECUTIVE_FAILURES_THRESHOLD \in 1..MaxThreshold
  /\ JITTER_MS \in JitterValues
  /\ pc = "start"
  /\ attempt = 0
  /\ consecutiveFailures = 0
  /\ returned = "none"
  /\ verdict = "none"
  /\ conn = "none"
  /\ sess = NoSession
  /\ trace = NoTrace
  /\ abandoned = FALSE
  /\ heartbeats = 0
  /\ okAt = 0
  /\ falseRun = 0
  /\ jitter = -1
  /\ rtrace = NoRcon
  /\ cfStart = 0

Next ==
  \/ Loop
  \/ JitterDone
  \/ RconConnect
  \/ RconSend
  \/ RconEnd
  \/ RconEndInCatch
  \/ WebSettled
  \/ AxiosPost
  \/ WsOpen
  \/ WsMessage
  \/ WsClose
  \/ WsError
  \/ Timeout
  \/ WsCloseFrame
  \/ WsUnheard
  \/ AbandonedClosed
  \/ WsErrorUnhandled

Spec == Init /\ [][Next]_vars

\* Timers fire and bounded awaits settle as long as the process runs:
\* Rcon.connect and rcon.send run under the timeout option of line 32,
\* sleep() is a timer, and the WebRCON attempt has its own timer.  The server
\* owes the socket nothing, so no fairness is assumed of the socket events;
\* rcon.end() and axios.post are called without a timeout, so none is assumed
\* of them either.
FairSpec ==
  /\ Spec
  /\ WF_vars(JitterDone)
  /\ WF_vars(RconConnect)
  /\ WF_vars(RconSend)
  /\ WF_vars(WebSettled)
  /\ WF_vars(Timeout)

\* Only the attempt's timer is assumed to fire, and the await of the settled
\* promise to resume, as long as the process runs.
WebFairSpec ==
  /\ Spec
  /\ WF_vars(Timeout)
  /\ WF_vars(WebSettled)

----------------------------------------------------------------------------
(* Properties *)

InCycle == pc \notin {"start", "sleep", "exited"}
Unrecognized == Transport \notin {"classic", "web"}
CommandSent == \E i \in 1..Len(sess.sent) : sess.sent[i].Type = "command"
Settled == sess.settled \in {"resolved", "rejected"}

\* C1: once an attempt's RCON exchange has succeeded in a cycle, no further
\* attempt is started in that cycle and the cycle does not return false,
\* whatever the heartbeat POST does.
C1_SuccessEndsCycle ==
  okAt # 0 => (attempt = okAt /\ returned # "false")

\* C2: a cycle in which some attempt's RCON exchange succeeded returns with
\* consecutiveFailures = 0 and without a WARN/DOWN line, also when the
\* heartbeat POST failed.
C2_HeartbeatFailureNotCounted ==
  (pc = "sleep" /\ okAt # 0) => (consecutiveFailures = 0 /\ verdict = "none")

\* C3: after the Nth call in a row that returned false consecutiveFailures
\* is N, and after a call that returned true it is 0.
C3_CounterIsRunLength ==
  pc = "sleep" =>
    /\ returned = "false" => consecutiveFailures = falseRun
    /\ returned = "true" => consecutiveFailures = 0

\* C4: a cycle that returned true called axios.post exactly once, a cycle
\* that returned false never called it.
C4_HeartbeatOncePerSuccess ==
  pc = "sleep" =>
    /\ returned = "true" => heartbeats = 1
    /\ returned = "false" => heartbeats = 0

\* C5: an unrecognized RCON_TRANSPORT is never retried inside a cycle, never
\* increments consecutiveFailures and never produces a WARN/DOWN line.
C5_UnknownTransportIsFatal ==
  Unrecognized =>
    (pc # "jitter" /\ consecutiveFailures = 0 /\ verdict = "none")

\* C6: when a WebRCON attempt has settled, the socket it created is closing
\* or closed.
C6_SocketClosedOnSettle ==
  (Settled /\ sess.ws) => sess.readyState \in {"CLOSING", "CLOSED"}

\* C7: a failed cycle reports DOWN iff the incremented counter has reached
\* the threshold and WARN iff it is below it; and in a run of failed cycles
\* that starts from counter 0 the first T-1 report WARN, the later ones DOWN.
C7_VerdictByThreshold ==
  (pc = "sleep" /\ returned = "false") =>
    /\ verdict = "DOWN" <=>
         consecutiveFailures >= CONSECUTIVE_FAILURES_THRESHOLD
    /\ verdict = "WARN" <=>
         (0 < consecutiveFailures
          /\ consecutiveFailures < CONSECUTIVE_FAILURES_THRESHOLD)
    /\ verdict =
         IF falseRun >= CONSECUTIVE_FAILURES_THRESHOLD THEN "DOWN" ELSE "WARN"

\* C8: no error of an attempt escapes: no error ends the process, a call
\* returns true or false, and every call that was started returns (the loop
\* reaches its sleep before the next cycle), however many cycles in a row
\* have failed.
C8_ErrorsAbsorbed ==
  /\ [](pc # "exited")
  /\ [](pc = "sleep" => returned \in {"true", "false"})
  /\ (InCycle ~> pc = "sleep")

\* C9: a 'close' event that comes before any frame with Identifier -1
\* rejects the attempt as closed before auth, and the session has sent no
\* command message.
C9_CloseBeforeAuthFails ==
  trace.closedPreSig =>
    /\ sess.settled = "rejected"
    /\ sess.error = "WebRCON connection closed before auth"
    /\ ~CommandSent

C9_Witness ==
  /\ trace.closedPreSig
  /\ trace.rx > 0
  /\ pc = "jitter"

\* C10: the attempt resolves only on a frame received after the first frame
\* with Identifier -1; no frame received before that signal resolves it.
C10_NoSuccessBeforeSignal ==
  sess.settled = "resolved" =>
    (trace.sigRx # 0 /\ trace.okRx > trace.sigRx)

C10_Witness ==
  /\ sess.settled = "resolved"
  /\ trace.sigRx > 1
  /\ pc = "post"

\* C11: after the signal the attempt succeeds on the first frame received
\* whose Identifier is the command id, and a frame with any other Identifier
\* received after the signal neither resolves nor rejects the attempt.
C11_FirstMatchSucceeds ==
  /\ trace.matchRx # 0 =>
       (sess.settled = "resolved" /\ trace.okRx = trace.matchRx)
  /\ ~trace.otherSettled

\* C12: a frame that is not JSON ends the attempt at once with a parse
\* error, before the signal and after it: no later frame is handled, the
\* timer and the listeners are gone, and the attempt has not succeeded.
C12_MalformedFrameFails ==
  trace.garbageRx # 0 =>
    /\ sess.settled = "rejected"
    /\ sess.error = "WebRCON parse error"
    /\ trace.rx = trace.garbageRx
    /\ trace.okRx = 0
    /\ ~sess.listeners
    /\ ~sess.timeoutId

C12_Witness ==
  /\ trace.garbageRx # 0
  /\ trace.sigRx # 0
  /\ trace.garbageRx > trace.sigRx + 1
  /\ CommandSent

\* C13: with the classic transport, when Rcon.connect fails (connection
\* refused, authentication rejected) the attempt fails and rcon.send is not
\* called in that session.
C13_NoCommandAfterAuthRejected ==
  rtrace.connect = "failed" =>
    /\ rtrace.sendCalls = 0
    /\ ~rtrace.response
    /\ conn = "none"
    /\ pc \in {"jitter", "sleep"}
    /\ pc = "sleep" => returned = "false"

C13_Witness ==
  /\ Transport = "classic"
  /\ rtrace.connect = "failed"
  /\ pc = "jitter"
  /\ attempt = 2

\* What the catch does guarantee: a jitter delay is in progress only after an
\* attempt that ended in the catch and is not the last one, and its value is
\* 0 when JITTER_MS = 0 and in [0, JITTER_MS) otherwise.
JitterWhenCaught ==
  /\ jitter # -1 <=> pc = "jitter"
  /\ pc = "jitter" =>
       /\ attempt < ATTEMPTS_PER_CYCLE
       /\ 0 <= jitter
       /\ IF JITTER_MS > 0 THEN jitter < JITTER_MS ELSE jitter = 0

\* C14: a jitter delay is taken only after a failed attempt that is not the
\* last one, its value lies in [0, JITTER_MS), and no delay is taken after
\* the final attempt of a cycle or after an attempt whose RCON exchange
\* succeeded.
C14_JitterInRange ==
  /\ JitterWhenCaught
  /\ pc = "jitter" => jitter < JITTER_MS
  /\ pc = "jitter" => okAt = 0

\* C15: a new attempt, in the same cycle or the next, starts only when the
\* previous attempt has settled and its connection is closed (or closing),
\* and a cycle starts only when the previous call has returned.
StartsAttempt == pc \in {"start", "sleep", "jitter"} /\ pc' \in {"connect", "web"}
PreviousClosed ==
  /\ sess.settled # "pending"
  /\ sess.readyState \in {"NONE", "CLOSING", "CLOSED"}
  /\ conn \in {"none", "ended"}
C15_OneConnectionAtATime ==
  [][/\ StartsAttempt => PreviousClosed
     /\ (attempt' = 1 /\ attempt # 1) => pc \in {"start", "sleep"}]_vars

\* C16: an attempt that does not end the cycle leaves consecutiveFailures as
\* it was at cycle start; a cycle that returns false leaves it exactly one
\* higher than at cycle start, and only a cycle that returns true lowers it.
C16_CounterChangesAtCycleEnd ==
  /\ pc = "jitter" => consecutiveFailures = cfStart
  /\ (pc = "sleep" /\ returned = "false") =>
       consecutiveFailures = cfStart + 1
  /\ (pc = "sleep" /\ returned = "true") => consecutiveFailures = 0

\* C17: an attempt has one terminal outcome: once its promise has settled,
\* the timer and the listeners are gone, and nothing changes the outcome or
\* runs a handler of that session until the next attempt replaces it.
NewSession == pc \in {"start", "sleep", "jitter"} /\ pc' = "web"
C17_OneTerminalOutcome ==
  /\ [](Settled => (~sess.listeners /\ ~sess.timeoutId))
  /\ [][(Settled /\ ~NewSession) =>
          /\ sess' = [sess EXCEPT !.readyState = sess'.readyState]
          /\ trace' = trace]_vars

C17_Witness ==
  /\ sess.settled = "rejected"
  /\ sess.error = "WebRCON timeout"
  /\ sess.readyState = "CONNECTING"
  /\ pc = "jitter"

\* C18: every WebRCON attempt settles and the cycle goes on, given only that
\* the timer of a running process fires; a session whose socket closed after
\* the signal and before the command response ends rejected by the timeout.
ClosedAfterSignal ==
  /\ pc = "web"
  /\ sess.settled = "pending"
  /\ sess.authSuccess
  /\ sess.readyState = "CLOSED"
C18_AttemptSettles ==
  /\ (pc = "web" /\ sess.settled = "pending") ~> Settled
  /\ (pc = "web") ~> (pc \in {"post", "jitter", "sleep"})
  /\ ClosedAfterSignal ~>
       (sess.settled = "rejected" /\ sess.error = "WebRCON timeout")

C18_Witness ==
  /\ sess.settled = "rejected"
  /\ sess.error = "WebRCON timeout"
  /\ sess.authSuccess
  /\ sess.readyState = "CLOSED"
  /\ pc \in {"jitter", "sleep"}

\* C19: in every WebRCON session the messages sent are, in order, the auth
\* message (Identifier 1) and then at most one command message; the command
\* is sent in the step that receives the first frame with Identifier -1,
\* never before, and the auth flag of a session never goes back to false.
SentInOrder ==
  /\ Len(sess.sent) <= 2
  /\ Len(sess.sent) >= 1 =>
       sess.sent[1] = [Identifier |-> Num(1), Type |-> "auth"]
  /\ Len(sess.sent) = 2 =>
       /\ sess.sent[2] = [Identifier |-> sess.commandId, Type |-> "command"]
       /\ sess.authSuccess
       /\ trace.sigRx # 0
C19_EventOrder ==
  /\ []SentInOrder
  /\ [](sess.authSuccess <=> CommandSent)
  /\ [][(~NewSession /\ ~CommandSent /\ CommandSent') =>
          (trace.sigRx = 0 /\ trace'.sigRx = trace'.rx)]_vars
  /\ [][(~NewSession /\ sess.authSuccess) => sess'.authSuccess]_vars

C19_Witness ==
  /\ CommandSent
  /\ Len(sess.sent) = 2
  /\ trace.rx >= trace.sigRx + 2
  /\ sess.settled = "pending"

\* C20: the heartbeat POST is issued only in an attempt that received its
\* command response; an attempt that connected and authenticated and whose
\* command then failed or timed out goes to the failure path and issues no
\* heartbeat.
ResponseReceived ==
  IF Transport = "web"
  THEN sess.settled = "resolved" /\ trace.okRx # 0
  ELSE Transport = "classic" /\ rtrace.connect = "ok" /\ rtrace.response
PartialProgress ==
  IF Transport = "web"
  THEN sess.authSuccess /\ sess.settled = "rejected"
  ELSE /\ Transport = "classic"
       /\ rtrace.connect = "ok"
       /\ rtrace.sendCalls > 0
       /\ ~rtrace.response
       /\ pc # "send"
C20_HeartbeatOnlyAfterExchange ==
  /\ [](pc = "post" => ResponseReceived)
  /\ [][heartbeats' > heartbeats =>
          (pc' = "post" /\ ResponseReceived /\ ResponseReceived')]_vars
  /\ [](PartialProgress =>
          /\ pc \in {"web", "endInCatch", "jitter", "sleep", "exited"}
          /\ pc = "sleep" => returned = "false")
  /\ [][(PartialProgress /\ PartialProgress') =>
          heartbeats' = heartbeats]_vars

C20_Witness ==
  /\ program = "part_000"
  /\ Transport = "classic"
  /\ rtrace.connect = "ok"
  /\ rtrace.sendCalls = 1
  /\ ~rtrace.response
  /\ pc = "jitter"
  /\ heartbeats = 0

\* C21: a cycle makes at most ATTEMPTS_PER_CYCLE attempts, and it returns
\* false only after exactly ATTEMPTS_PER_CYCLE attempts of which none had a
\* successful RCON exchange.
AttemptsBounded ==
  /\ InCycle => attempt \in 1..ATTEMPTS_PER_CYCLE
  /\ (pc = "sleep" /\ returned = "true") => attempt \in 1..ATTEMPTS_PER_CYCLE
  /\ (pc = "sleep" /\ returned = "false") => attempt = ATTEMPTS_PER_CYCLE + 1
C21_FalseOnlyAfterAllFailed ==
  /\ AttemptsBounded
  /\ (pc = "sleep" /\ returned = "false") => okAt = 0

\* C22: the command's Identifier, taken from Date.now(), is a non-negative
\* integer other than 1 and -1, and in no session state after the signal does
\* a frame with Identifier 1 or -1 settle the attempt or send anything.
EchoFrames ==
  {f \in Frames : f.kind = "object" /\ f.Identifier \in {Num(1), Num(-1)}}
C22_CommandIdDistinct ==
  /\ sess.authSuccess =>
       /\ sess.commandId.def
       /\ sess.commandId.val \in Nat
       /\ sess.commandId \notin {Num(1), Num(-1)}
  /\ CommandSent => sess.sent[2].Identifier = sess.commandId
  /\ sess.authSuccess =>
       \A f \in EchoFrames, now \in Clock : wsOnMessage(sess, f, now) = sess

C22_Witness ==
  /\ trace.echoed
  /\ trace.okRx > trace.sigRx + 1
  /\ sess.settled = "resolved"

\* C23: cleanup() is idempotent in every session state: before the socket
\* exists and with the socket connecting, open, closing or closed, a second
\* call changes nothing after the first (timer cleared, listeners removed,
\* ws.close() not called again), and ws.close() is called at most once.
ReadyStates == {"CONNECTING", "OPEN", "CLOSING", "CLOSED"}
SessionStates ==
  {[NoSession EXCEPT !.timeoutId = TRUE, !.settled = "pending"]}
  \cup {[sess EXCEPT !.ws = TRUE, !.readyState = r, !.listeners = TRUE,
                     !.timeoutId = TRUE] : r \in ReadyStates}
  \cup {sess}
CleanedUp(s) ==
  /\ ~s.timeoutId
  /\ s.ws => (~s.listeners /\ s.readyState # "OPEN")
C23_CleanupIdempotent ==
  /\ \A s \in SessionStates :
       LET once == cleanup(s)
       IN /\ CleanedUp(once)
          /\ cleanup(once) = once
          /\ once.closeCalls =
               s.closeCalls + (IF s.ws /\ s.readyState = "OPEN" THEN 1 ELSE 0)
  /\ sess.closeCalls <= 1
  /\ (Settled /\ sess.readyState # "OPEN") =>
       (CleanedUp(sess) /\ cleanup(sess) = sess)

C23_Witness ==
  /\ sess.settled = "resolved"
  /\ sess.readyState = "CLOSING"
  /\ sess.closeCalls = 1
  /\ cleanup(sess) = sess

====
